---- MODULE Spec2Model ----
(***************************************************************************)
(* Model of src/parser.rs: the parser and compiler of string commands.     *)
(*                                                                         *)
(* A Rust &str is modelled as a sequence of characters (Unicode scalar     *)
(* values); a character is a one-element TLA+ string, and the characters   *)
(* outside the TLA+ string syntax are named by their code point            *)
(* ("U+00E9").  Byte offsets (str::find, split_at, Match::end) are         *)
(* computed from Utf8Len, codepoint counts (chars().count()) from Len.     *)
(*                                                                         *)
(* Option<T> is modelled as a sequence: None is << >>, Some(v) is <<v>>.   *)
(* A usize is modelled as its base-10 digit sequence without leading       *)
(* zeros (<<1, 2>> is twelve): usize::MAX does not fit TLC's integers.     *)
(***************************************************************************)
EXTENDS Integers, Sequences, FiniteSets, TLC

VARIABLES
    pc,         \* "source" | "parsed" | "compiled" | "reparsed"
    origin,     \* "source": input is a string; "built": input is a ParsedString
    string,     \* the argument of ParsedString::parse
    result,     \* the value ParsedString::parse returned (or the built value)
    output,     \* the value ParsedString::compile returned
    reparsed    \* ParsedString::parse(output)

vars == <<pc, origin, string, result, output, reparsed>>

-----------------------------------------------------------------------------
(* Characters and the character classes of the regex crate                 *)

None == << >>

Some(v) == <<v>>

IsSome(o) == o # << >>

Unwrap(o) == o[1]

Quote == "\""

AsciiDigit == {"0", "1", "2", "3", "4", "5", "6", "7", "8", "9"}

\* \d is Unicode-aware in the regex crate: General_Category=Nd.
\* U+0663 is ARABIC-INDIC DIGIT THREE.
Digit == AsciiDigit \cup {"U+0663"}

Upper == {"A", "B", "C", "D", "E", "F", "G", "H", "I", "J", "K", "L", "M",
          "N", "O", "P", "Q", "R", "S", "T", "U", "V", "W", "X", "Y", "Z"}

Lower == {"a", "b", "c", "e", "g", "n"}

\* \s is Unicode White_Space: it holds U+000B (vertical tab) and U+00A0
\* (no-break space) besides the ASCII whitespace characters.
Whitespace == {" ", "\t", "\n", "\r", "\f", "U+000B", "U+00A0"}

\* char::is_ascii_whitespace: space, tab, LF, FF, CR (not U+000B).
is_ascii_whitespace(c) == c \in {" ", "\t", "\n", "\f", "\r"}

\* \w is Unicode-aware: alphabetic, marks, decimal digits, connectors.
Word == Upper \cup Lower \cup Digit \cup {"_", "U+00E9"}

Punct == {"{", "}", ":", ".", "=", Quote, "-"}

Alphabet == Word \cup Whitespace \cup Punct

\* '.' matches every character but the line feed.
AnyButNewline == Alphabet \ {"\n"}

\* Bytes of the UTF-8 encoding of a character.
Utf8Len(c) == IF c \in {"U+00E9", "U+00A0", "U+0663"} THEN 2 ELSE 1

-----------------------------------------------------------------------------
(* str primitives                                                          *)

NoChar == ""

At(s, i) == IF i \in 1..Len(s) THEN s[i] ELSE NoChar

From(s, i) == SubSeq(s, i, Len(s))

RECURSIVE len(_)
\* str::len: the length in bytes
len(s) == IF s = << >> THEN 0 ELSE Utf8Len(Head(s)) + len(Tail(s))

chars_count_as_len(s) == len(s)

\* str::chars().count(): the length in Unicode scalar values
chars_count(s) == Len(s)

RECURSIVE IndexFrom(_, _, _)
\* position (1-based, in characters) of the first c at or after i, else 0
IndexFrom(s, i, c) ==
    IF i > Len(s) THEN 0
    ELSE IF s[i] = c THEN i
    ELSE IndexFrom(s, i + 1, c)

RECURSIVE IndexBack(_, _, _)
\* position of the last c at or before i, else 0
IndexBack(s, i, c) ==
    IF i < 1 THEN 0
    ELSE IF s[i] = c THEN i
    ELSE IndexBack(s, i - 1, c)

find_last(s, c) ==
    LET i == IndexBack(s, Len(s), c)
    IN  IF i = 0 THEN None ELSE Some(len(SubSeq(s, 1, i - 1)))

\* str::find(char): the byte offset of the first occurrence
find(s, c) ==
    LET i == IndexFrom(s, 1, c)
    IN  IF i = 0 THEN None ELSE Some(len(SubSeq(s, 1, i - 1)))

RECURSIVE CharsBefore(_, _)
\* number of characters that end at or before byte offset mid
CharsBefore(s, mid) ==
    IF s = << >> \/ Utf8Len(Head(s)) > mid THEN 0
    ELSE 1 + CharsBefore(Tail(s), mid - Utf8Len(Head(s)))

\* str::split_at(mid), mid a byte offset on a character boundary
split_at(s, mid) ==
    LET k == CharsBefore(s, mid)
    IN  <<SubSeq(s, 1, k), From(s, k + 1)>>

RECURSIVE Run(_, _, _)
\* length of the longest run of characters of class at position i of s
Run(s, i, class) ==
    IF i > Len(s) \/ s[i] \notin class THEN 0
    ELSE 1 + Run(s, i + 1, class)

RECURSIVE RunBack(_, _, _)
\* length of the longest run of characters of class that ends at position i
RunBack(s, i, class) ==
    IF i < 1 \/ s[i] \notin class THEN 0
    ELSE 1 + RunBack(s, i - 1, class)

AllIn(s, class) == \A i \in 1..Len(s) : s[i] \in class

-----------------------------------------------------------------------------
(* usize: parsing and formatting                                           *)

DigitValue == [c \in AsciiDigit |->
    CASE c = "0" -> 0 [] c = "1" -> 1 [] c = "2" -> 2 [] c = "3" -> 3
      [] c = "4" -> 4 [] c = "5" -> 5 [] c = "6" -> 6 [] c = "7" -> 7
      [] c = "8" -> 8 [] c = "9" -> 9]

DigitChar == [d \in 0..9 |->
    CASE d = 0 -> "0" [] d = 1 -> "1" [] d = 2 -> "2" [] d = 3 -> "3"
      [] d = 4 -> "4" [] d = 5 -> "5" [] d = 6 -> "6" [] d = 7 -> "7"
      [] d = 8 -> "8" [] d = 9 -> "9"]

\* usize::MAX of a 64-bit target: 18446744073709551615
USIZE_MAX == <<1, 8, 4, 4, 6, 7, 4, 4, 0, 7, 3, 7, 0, 9, 5, 5, 1, 6, 1, 5>>

RECURSIVE LexLeq(_, _)
LexLeq(a, b) ==
    IF a = << >> THEN TRUE
    ELSE IF a[1] # b[1] THEN a[1] < b[1]
    ELSE LexLeq(Tail(a), Tail(b))

\* a <= b on digit sequences without leading zeros
NumLeq(a, b) ==
    \/ Len(a) < Len(b)
    \/ Len(a) = Len(b) /\ LexLeq(a, b)

RECURSIVE StripZeros(_)
StripZeros(ds) ==
    IF Len(ds) > 1 /\ ds[1] = 0 THEN StripZeros(Tail(ds)) ELSE ds

parse_usize_saturating(s) ==
    IF s = << >> \/ ~AllIn(s, AsciiDigit) THEN None
    ELSE LET v == StripZeros([i \in 1..Len(s) |-> DigitValue[s[i]]])
         IN  IF NumLeq(v, USIZE_MAX) THEN Some(v) ELSE Some(USIZE_MAX)

\* str::parse::<usize>().ok(): only ASCII digits are digits of the radix,
\* and a value above usize::MAX is an error
parse_usize(s) ==
    IF s = << >> \/ ~AllIn(s, AsciiDigit) THEN None
    ELSE LET v == StripZeros([i \in 1..Len(s) |-> DigitValue[s[i]]])
         IN  IF NumLeq(v, USIZE_MAX) THEN Some(v) ELSE None

\* format!("{}", i) of a usize
format_usize(v) == [i \in 1..Len(v) |-> DigitChar[v[i]]]

-----------------------------------------------------------------------------
(* StringCommand                                                           *)

StringCommand(index, name, case) ==
    [variant |-> "Command", index |-> index, name |-> name, case |-> case]

\* (?:(\d+):)? at the head of the interior of a span that a '.' or '}' or a
\* name follows.  Yields <<matched, group 1, rest>>: the group cannot be
\* skipped over a digit, for no name starts with a digit.
CommandIndex_nocolon(interior) ==
    LET d == Run(interior, 1, Digit)
    IN  IF d = 0 THEN <<TRUE, None, interior>>
        ELSE IF At(interior, d + 1) = ":"
        THEN <<TRUE, Some(SubSeq(interior, 1, d)), From(interior, d + 2)>>
        ELSE <<TRUE, Some(SubSeq(interior, 1, d)), From(interior, d + 1)>>

CommandIndex(interior) ==
    LET d == Run(interior, 1, Digit)
    IN  IF d = 0 THEN <<TRUE, None, interior>>
        ELSE IF At(interior, d + 1) = ":"
        THEN <<TRUE, Some(SubSeq(interior, 1, d)), From(interior, d + 2)>>
        ELSE <<FALSE, None, interior>>

\* (|\{|[A-Z]+[A-Z0-9_]*) matched against the whole of name
CommandName(name) ==
    \/ name = << >>
    \/ name = <<"{">>
    \/ /\ name[1] \in Upper
       /\ AllIn(name, Upper \cup AsciiDigit \cup {"_"})

\* PAT_COMMAND.captures(string): None, or Some of the groups 1..3.
\* ^\{(?:(\d+):)?(|\{|[A-Z]+[A-Z0-9_]*)(?:\.(\w+))?\}$
\* Neither a name nor a case modifier holds a '.', so the name ends at the
\* first '.' of what follows the index.
PAT_COMMAND(s) ==
    LET n        == Len(s)
        interior == SubSeq(s, 2, n - 1)
        idx      == CommandIndex(interior)
        after    == idx[3]
        dot      == IndexFrom(after, 1, ".")
        name     == IF dot = 0 THEN after ELSE SubSeq(after, 1, dot - 1)
        case     == From(after, dot + 1)
    IN  IF /\ n >= 2
           /\ s[1] = "{"
           /\ s[n] = "}"
           /\ idx[1]
           /\ CommandName(name)
           /\ dot # 0 => (case # << >> /\ AllIn(case, Word))
        THEN Some(<<idx[2], name, IF dot = 0 THEN None ELSE Some(case)>>)
        ELSE None

\* StringCommand::parse
StringCommand_parse(s) ==
    LET caps == PAT_COMMAND(s)
    IN  IF ~IsSome(caps) THEN None
        ELSE LET c == Unwrap(caps)
             IN  Some(StringCommand(
                    IF IsSome(c[1]) THEN parse_usize(Unwrap(c[1])) ELSE None,
                    c[2],
                    c[3]))

\* StringCommand::compile
StringCommand_compile(self) ==
    <<"{">>
    \o (IF IsSome(self.index)
        THEN format_usize(Unwrap(self.index)) \o <<":">> ELSE << >>)
    \o self.name
    \o (IF IsSome(self.case) THEN <<".">> \o Unwrap(self.case) ELSE << >>)
    \o <<"}">>

-----------------------------------------------------------------------------
(* GenderDefinition                                                        *)

GenderDefinition(gender) == [variant |-> "Gender", gender |-> gender]

\* PAT_GENDER.captures(string): None, or Some of group 1.
\* ^\{G\s*=\s*(\w+)\}$
PAT_GENDER(s) ==
    LET n    == Len(s)
        w1   == Run(s, 3, Whitespace)
        w2   == Run(s, 4 + w1, Whitespace)
        word == SubSeq(s, 4 + w1 + w2, n - 1)
    IN  IF /\ n >= 2
           /\ s[1] = "{"
           /\ s[2] = "G"
           /\ At(s, 3 + w1) = "="
           /\ word # << >>
           /\ AllIn(word, Word)
           /\ s[n] = "}"
        THEN Some(word)
        ELSE None

\* GenderDefinition::parse
GenderDefinition_parse(s) ==
    LET caps == PAT_GENDER(s)
    IN  IF IsSome(caps) THEN Some(GenderDefinition(Unwrap(caps))) ELSE None

\* GenderDefinition::compile
GenderDefinition_compile(self) ==
    <<"{", "G", "=">> \o self.gender \o <<"}">>

-----------------------------------------------------------------------------
(* ChoiceList                                                              *)

ChoiceList(name, indexref, indexsubref, choices) ==
    [variant |-> "Choice", name |-> name, indexref |-> indexref,
     indexsubref |-> indexsubref, choices |-> choices]

ChoiceKind_upper == Upper

\* ([PG]) of PAT_CHOICE
ChoiceKind == {"P", "G"}

\* the class of '.' in (\s+[^\s0-9].*?) of PAT_CHOICE
ChoiceAny == AnyButNewline

\* (\s+[^\s0-9].*?)\s*$ matched against the whole of t, the text between
\* the kind (or the index reference) and the closing brace: None, or Some
\* of group 4.  The lazy .*? leaves the longest whitespace suffix to \s*.
ChoiceTokens(t) ==
    LET w     == Run(t, 1, Whitespace)
        first == At(t, w + 1)
        trail == RunBack(t, Len(t), Whitespace)
        last  == IF Len(t) - trail < w + 1 THEN w + 1 ELSE Len(t) - trail
    IN  IF /\ w > 0
           /\ first # NoChar
           /\ first \notin Whitespace \cup AsciiDigit
           /\ AllIn(SubSeq(t, w + 2, last), ChoiceAny)
        THEN Some(SubSeq(t, 1, last))
        ELSE None

\* (?:\s+(\d+)(?::(\d+))?)? at the head of t: <<matched, group 2, group 3,
\* rest>> of the greedy match (every run is the longest one: a shorter run
\* leaves a character that nothing after it accepts)
ChoiceIndex(t) ==
    LET w  == Run(t, 1, Whitespace)
        d  == Run(t, w + 1, Digit)
        d2 == IF At(t, w + d + 1) = ":" THEN Run(t, w + d + 2, Digit) ELSE 0
    IN  IF w = 0 \/ d = 0 THEN <<FALSE, None, None, t>>
        ELSE IF d2 = 0
        THEN <<TRUE, Some(SubSeq(t, w + 1, w + d)), None, From(t, w + d + 1)>>
        ELSE <<TRUE, Some(SubSeq(t, w + 1, w + d)),
               Some(SubSeq(t, w + d + 2, w + d + 1 + d2)),
               From(t, w + d + 2 + d2)>>

\* PAT_CHOICE.captures(string): None, or Some of the groups 1..4.
\* ^\{([PG])(?:\s+(\d+)(?::(\d+))?)?(\s+[^\s0-9].*?)\s*\}$
\* The index reference is tried first; when the rest does not match with
\* it, the match is retried without it.
PAT_CHOICE(s) ==
    LET n     == Len(s)
        t     == SubSeq(s, 3, n - 1)
        idx   == ChoiceIndex(t)
        withI == ChoiceTokens(idx[4])
        noI   == ChoiceTokens(t)
    IN  IF ~(n >= 3 /\ s[1] = "{" /\ s[2] \in ChoiceKind /\ s[n] = "}")
        THEN None
        ELSE IF idx[1] /\ IsSome(withI)
        THEN Some(<<<<s[2]>>, idx[2], idx[3], Unwrap(withI)>>)
        ELSE IF IsSome(noI)
        THEN Some(<<<<s[2]>>, None, None, Unwrap(noI)>>)
        ELSE None

\* PAT_ITEM.captures(rest): None, or Some(<<the choice, m.get(0).end()>>),
\* the end being a byte offset.
\* ^\s+(?:([^\s"]+)|"([^"]*)")
PAT_ITEM(rest) ==
    LET w     == Run(rest, 1, Whitespace)
        first == At(rest, w + 1)
        close == IndexFrom(rest, w + 2, Quote)
        bare  == Run(rest, w + 1, Alphabet \ (Whitespace \cup {Quote}))
    IN  IF w = 0 \/ first = NoChar THEN None
        ELSE IF first = Quote
        THEN IF close = 0 THEN None
             ELSE Some(<<SubSeq(rest, w + 2, close - 1),
                         len(SubSeq(rest, 1, close))>>)
        ELSE Some(<<SubSeq(rest, w + 1, w + bare),
                    len(SubSeq(rest, 1, w + bare))>>)

RECURSIVE ChoiceItems(_, _)
\* the loop of ChoiceList::parse over rest: None when an item does not
\* match (the ? operator), else Some of the choices
ChoiceItems(rest, choices) ==
    IF rest = << >> THEN Some(choices)
    ELSE LET m == PAT_ITEM(rest)
         IN  IF ~IsSome(m) THEN None
             ELSE ChoiceItems(split_at(rest, Unwrap(m)[2])[2],
                              Append(choices, Unwrap(m)[1]))

\* ChoiceList::parse
ChoiceList_parse(s) ==
    LET caps == PAT_CHOICE(s)
    IN  IF ~IsSome(caps) THEN None
        ELSE LET c     == Unwrap(caps)
                 items == ChoiceItems(c[4], << >>)
             IN  IF ~IsSome(items) THEN None
                 ELSE Some(ChoiceList(
                        c[1],
                        IF IsSome(c[2]) THEN parse_usize(Unwrap(c[2])) ELSE None,
                        IF IsSome(c[3]) THEN parse_usize(Unwrap(c[3])) ELSE None,
                        Unwrap(items)))

Quoted_unicode(c) == c = << >> \/ \E i \in 1..Len(c) : c[i] \in Whitespace

\* c.is_empty() || c.contains(|v| char::is_ascii_whitespace(&v))
Quoted(c) == c = << >> \/ \E i \in 1..Len(c) : is_ascii_whitespace(c[i])

RECURSIVE CompileChoices(_)
\* the loop of ChoiceList::compile over the choices
CompileChoices(choices) ==
    IF choices = << >> THEN << >>
    ELSE (IF Quoted(Head(choices))
          THEN <<" ", Quote>> \o Head(choices) \o <<Quote>>
          ELSE <<" ">> \o Head(choices))
         \o CompileChoices(Tail(choices))

\* ChoiceList::compile
ChoiceList_compile(self) ==
    <<"{">> \o self.name
    \o (IF IsSome(self.indexref)
        THEN <<" ">> \o format_usize(Unwrap(self.indexref))
             \o (IF IsSome(self.indexsubref)
                 THEN <<":">> \o format_usize(Unwrap(self.indexsubref))
                 ELSE << >>)
        ELSE << >>)
    \o CompileChoices(self.choices)
    \o <<"}">>

-----------------------------------------------------------------------------
(* FragmentContent                                                         *)

Text(s) == [variant |-> "Text", text |-> s]

InvalidPrefix ==
    <<"I", "n", "v", "a", "l", "i", "d", " ", "s", "t", "r", "i", "n", "g",
      " ", "c", "o", "m", "m", "a", "n", "d", ":", " ", "'">>

\* Result<FragmentContent, String> is <<TRUE, content>> or <<FALSE, message>>
FragmentContent_parse_choice_first(s) ==
    IF IsSome(StringCommand_parse(s))
    THEN <<TRUE, Unwrap(StringCommand_parse(s))>>
    ELSE IF IsSome(ChoiceList_parse(s))
    THEN <<TRUE, Unwrap(ChoiceList_parse(s))>>
    ELSE IF IsSome(GenderDefinition_parse(s))
    THEN <<TRUE, Unwrap(GenderDefinition_parse(s))>>
    ELSE <<FALSE, InvalidPrefix \o s \o <<"'">> >>

\* FragmentContent::parse
FragmentContent_parse(s) ==
    IF IsSome(StringCommand_parse(s))
    THEN <<TRUE, Unwrap(StringCommand_parse(s))>>
    ELSE IF IsSome(GenderDefinition_parse(s))
    THEN <<TRUE, Unwrap(GenderDefinition_parse(s))>>
    ELSE IF IsSome(ChoiceList_parse(s))
    THEN <<TRUE, Unwrap(ChoiceList_parse(s))>>
    ELSE <<FALSE, InvalidPrefix \o s \o <<"'">> >>

\* FragmentContent::compile
FragmentContent_compile(self) ==
    CASE self.variant = "Text"    -> self.text
      [] self.variant = "Command" -> StringCommand_compile(self)
      [] self.variant = "Gender"  -> GenderDefinition_compile(self)
      [] self.variant = "Choice"  -> ChoiceList_compile(self)

-----------------------------------------------------------------------------
(* ParsedString                                                            *)

StringFragment(pos_begin, pos_end, content) ==
    [pos_begin |-> pos_begin, pos_end |-> pos_end, content |-> content]

ParserError(pos_begin, pos_end, message) ==
    [pos_begin |-> pos_begin, pos_end |-> pos_end, message |-> message]

Unterminated ==
    <<"U", "n", "t", "e", "r", "m", "i", "n", "a", "t", "e", "d", " ",
      "s", "t", "r", "i", "n", "g", " ", "c", "o", "m", "m", "a", "n", "d",
      ",", " ", "'", "}", "'", " ", "e", "x", "p", "e", "c", "t", "e", "d",
      ".">>

\* Result<ParsedString, ParserError>: exactly one of the two is meaningful
Ok(fragments) ==
    [ok |-> TRUE, fragments |-> fragments, error |-> ParserError(0, None, << >>)]

Err(error) == [ok |-> FALSE, fragments |-> << >>, error |-> error]

RECURSIVE ParseLoop(_, _, _)
\* the while loop of ParsedString::parse, from the state (rest, pos_code,
\* result.fragments) to the value returned
ParseLoop(rest, pos_code, fragments) ==
    IF rest = << >> THEN Ok(fragments)
    ELSE IF ~IsSome(find(rest, "{"))
    THEN Ok(Append(fragments,
            StringFragment(pos_code, pos_code + chars_count(rest), Text(rest))))
    ELSE
    LET start    == Unwrap(find(rest, "{"))
        text     == split_at(rest, start)[1]
        rest1    == split_at(rest, start)[2]
        frags1   == IF start > 0
                    THEN Append(fragments,
                            StringFragment(pos_code,
                                           pos_code + chars_count(text),
                                           Text(text)))
                    ELSE fragments
        pos1     == IF start > 0 THEN pos_code + chars_count(text)
                    ELSE pos_code
        end      == find(rest1, "}")
        span     == split_at(rest1, Unwrap(end) + 1)[1]
        rest2    == split_at(rest1, Unwrap(end) + 1)[2]
        len_code == chars_count(span)
        content  == FragmentContent_parse(span)
    IN  IF ~IsSome(end)
        THEN Err(ParserError(pos1, None, Unterminated))
        ELSE IF ~content[1]
        THEN Err(ParserError(pos1, Some(pos1 + len_code), content[2]))
        ELSE ParseLoop(rest2, pos1 + len_code,
                       Append(frags1,
                              StringFragment(pos1, pos1 + len_code, content[2])))

\* ParsedString::parse
ParsedString_parse(s) == ParseLoop(s, 0, << >>)

RECURSIVE ParsedString_compile(_)
\* ParsedString::compile, over the fragments
ParsedString_compile(fragments) ==
    IF fragments = << >> THEN << >>
    ELSE FragmentContent_compile(Head(fragments).content)
         \o ParsedString_compile(Tail(fragments))

-----------------------------------------------------------------------------
(* The inputs: source strings for ParsedString::parse, and ParsedString    *)
(* values built field by field (the fields are public)                     *)

MaxSegs == 3

MaxChoices == 2

\* command spans: "{" index name case "}"
CommandIndexes ==
    {<<>>,
     <<"1", ":">>,
     <<"1">>,
     <<"0", "7", ":">>,
     <<"1", "8", "4", "4", "6", "7", "4", "4", "0", "7", "3", "7", "0", "9", "5", "5", "1", "6", "1", "5", ":">>,
     <<"1", "8", "4", "4", "6", "7", "4", "4", "0", "7", "3", "7", "0", "9", "5", "5", "1", "6", "1", "6", ":">>,
     <<"U+0663", ":">>,
     <<"1", ":", "1">>,
     <<"1", "2">>}

CommandNames ==
    {<<>>,
     <<"N", "U", "M">>,
     <<"{">>,
     <<"B", "I", "G", "_", "F", "O", "N", "T", "2">>,
     <<"G">>}

CommandCases ==
    {<<>>,
     <<".", "g", "e", "n">>,
     <<".">>,
     <<".", "U+00E9">>,
     <<"=", "a">>,
     <<" ", "N", "U", "M">>}

CommandSpans ==
    {<<"{">> \o i \o n \o c \o <<"}">> :
        i \in CommandIndexes, n \in CommandNames, c \in CommandCases}

\* gender spans: "{G" space "=" space gender "}"
GenderSpaces ==
    {<<>>,
     <<" ">>,
     <<"\t", "\n">>,
     <<"U+00A0">>}

GenderNames ==
    {<<"n">>,
     <<>>,
     <<"U+00E9", "1">>,
     <<"m", "-", "f">>,
     <<"n", " ">>}

GenderSpans ==
    {<<"{", "G">> \o a \o <<"=">> \o b \o g \o <<"}">> :
        a \in GenderSpaces, b \in GenderSpaces, g \in GenderNames}

\* choice spans: "{" kind index item item trail "}"
ChoiceKinds ==
    {<<"P">>,
     <<"G">>,
     <<"A">>,
     <<"P", "G">>}

ChoiceIndexes ==
    {<<>>,
     <<" ", "1">>,
     <<"\t", "1", ":", "2">>,
     <<" ", "0", "7">>,
     <<" ", "1", "8", "4", "4", "6", "7", "4", "4", "0", "7", "3", "7", "0", "9", "5", "5", "1", "6", "1", "6">>,
     <<" ", "1", "8", "4", "4", "6", "7", "4", "4", "0", "7", "3", "7", "0", "9", "5", "5", "1", "6", "1", "6", ":", "2">>,
     <<" ", "1", ":", "1", "8", "4", "4", "6", "7", "4", "4", "0", "7", "3", "7", "0", "9", "5", "5", "1", "6", "1", "6">>,
     <<" ", "U+0663">>,
     <<" ", "1", ":">>,
     <<" ", "1", ".", "a">>,
     <<" ", "1", ":", "a">>}

ChoiceFirst ==
    {<<>>,
     <<" ", "a">>,
     <<"\n", "a">>,
     <<" ", " ", "a">>,
     <<" ", "\"", "\"">>,
     <<" ", "\"", "1", "\"">>,
     <<" ", "\"", "a", " ", "b", "\"">>,
     <<" ", "1", "a">>,
     <<" ", "\"", "a", "U+000B", "b", "\"">>,
     <<" ", "\"">>,
     <<" ", "=">>,
     <<" ", "\"", "a", "\n", "b", "\"">>}

ChoiceSecond ==
    {<<>>,
     <<" ", "b">>,
     <<"\n", "b">>,
     <<"\r", "\t", "b">>,
     <<" ", "\"", "\"">>,
     <<"\"", "c", "\"">>,
     <<" ", "2">>,
     <<" ", "b", "\"">>,
     <<"U+00A0", "b">>}

ChoiceTrail ==
    {<<>>,
     <<" ">>,
     <<"\n">>}

ChoiceSpans ==
    {<<"{">> \o k \o i \o a \o b \o t \o <<"}">> :
        k \in ChoiceKinds, i \in ChoiceIndexes, a \in ChoiceFirst,
        b \in ChoiceSecond, t \in ChoiceTrail}

\* pieces of longer strings: texts, spans, and an unterminated span
Segments ==
    {<<"U+00E9", " ">>,
     <<"a", "}">>,
     <<"{", "G", "=", "n", "}">>,
     <<"{", "G", " ", "=", " ", "n", "}">>,
     <<"{", "1", ":", "N", "U", "M", ".", "g", "e", "n", "}">>,
     <<"{", "P", " ", "1", ":", "2", " ", "\"", "a", " ", "b", "\"", " ", "c", "}">>,
     <<"{", "1", "}">>,
     <<"{", "O", "R", "A", "N", "G", "E">>,
     <<"{", "{", "}">>}

RECURSIVE Concats(_)
\* the concatenations of at most k segments
Concats(k) ==
    IF k = 0 THEN {<< >>}
    ELSE LET shorter == Concats(k - 1)
         IN  shorter \cup {c \o g : c \in shorter, g \in Segments}

Sources == CommandSpans \cup GenderSpans \cup ChoiceSpans \cup Concats(MaxSegs)

BuiltChoices ==
    {<<>>,
     <<"a">>,
     <<" ", "b">>,
     <<"a", "U+000B", "b">>,
     <<"c", "\t">>,
     <<"1">>}

RECURSIVE SeqsUpTo(_, _)
SeqsUpTo(S, k) ==
    IF k = 0 THEN {<< >>}
    ELSE LET shorter == SeqsUpTo(S, k - 1)
         IN  shorter \cup {Append(q, x) : q \in shorter, x \in S}

BuiltNumbers == {None, Some(<<1>>), Some(<<2, 0>>)}

\* ParsedString values of one ChoiceList fragment, built without parse
Built ==
    {<<StringFragment(0, 0, ChoiceList(<<k>>, i, j, c))>> :
        k \in {"P", "G"}, i \in BuiltNumbers, j \in {None, Some(<<2>>)},
        c \in SeqsUpTo(BuiltChoices, MaxChoices)}

-----------------------------------------------------------------------------
(* The state machine: parse a source, compile the result, parse it again   *)

NoResult == Err(ParserError(0, None, << >>))

Init ==
    /\ output = << >>
    /\ reparsed = NoResult
    /\ \/ /\ origin = "source"
          /\ pc = "source"
          /\ string \in Sources
          /\ result = NoResult
       \/ /\ origin = "built"
          /\ pc = "parsed"
          /\ string = << >>
          /\ result \in {Ok(f) : f \in Built}

\* ParsedString::parse(string)
Parse ==
    /\ pc = "source"
    /\ result' = ParsedString_parse(string)
    /\ pc' = "parsed"
    /\ UNCHANGED <<origin, string, output, reparsed>>

\* result.compile(), on an Ok result
Compile ==
    /\ pc = "parsed"
    /\ result.ok
    /\ output' = ParsedString_compile(result.fragments)
    /\ pc' = "compiled"
    /\ UNCHANGED <<origin, string, result, reparsed>>

\* ParsedString::parse(output)
Reparse ==
    /\ pc = "compiled"
    /\ reparsed' = ParsedString_parse(output)
    /\ pc' = "reparsed"
    /\ UNCHANGED <<origin, string, result, output>>

Next == Parse \/ Compile \/ Reparse

Spec == Init /\ [][Next]_vars

-----------------------------------------------------------------------------
(* Properties                                                              *)

\* the source has been parsed
Parsed == origin = "source" /\ pc # "source"

\* the source is one bracketed span: it opens with '{' and its only '}' is
\* its last character
OneSpan(s) ==
    /\ Len(s) >= 2
    /\ s[1] = "{"
    /\ IndexFrom(s, 1, "}") = Len(s)

\* the text of the source that a fragment or an error with an end covers
Covered(begin, end) == SubSeq(string, begin + 1, end)

Contains(s, part) ==
    \E i \in 1..(Len(s) - Len(part) + 1) : SubSeq(s, i, i + Len(part) - 1) = part

\* C1: when parse succeeds the fragment ranges tile the source: the first
\* begins at 0, each has pos_begin <= pos_end, each ends where the next
\* begins, the last ends at the number of Unicode scalar values of the
\* source, and the empty source has no fragments.
C1_RangesTile ==
    (Parsed /\ result.ok) =>
        LET f == result.fragments
        IN  /\ (f = << >>) <=> (string = << >>)
            /\ f # << >> => f[1].pos_begin = 0 /\ f[Len(f)].pos_end = Len(string)
            /\ \A i \in 1..Len(f) : f[i].pos_begin <= f[i].pos_end
            /\ \A i \in 1..(Len(f) - 1) : f[i].pos_end = f[i + 1].pos_begin

\* a source with a two-byte character before a span parsed to three
\* fragments or more
C1_Witness ==
    /\ Parsed
    /\ result.ok
    /\ Len(result.fragments) >= 3
    /\ \E i \in 1..Len(string) : Utf8Len(string[i]) = 2 /\ i < IndexFrom(string, 1, "{")

\* first match wins, in the order command, gender, choice list
Dispatch(span, r) ==
    LET command == StringCommand_parse(span)
        gender  == GenderDefinition_parse(span)
        choice  == ChoiceList_parse(span)
    IN  /\ IsSome(command) => r = <<TRUE, Unwrap(command)>>
        /\ (~IsSome(command) /\ IsSome(gender)) => r = <<TRUE, Unwrap(gender)>>
        /\ (~IsSome(command) /\ ~IsSome(gender) /\ IsSome(choice)) =>
                r = <<TRUE, Unwrap(choice)>>
        /\ (~IsSome(command) /\ ~IsSome(gender) /\ ~IsSome(choice)) =>
                ~r[1] /\ Contains(r[2], span)
        /\ r[1] => r[2].variant \in {"Command", "Gender", "Choice"}

\* C4: every bracketed span is dispatched first-match-wins in the order
\* command, gender definition, choice list: Command whenever the command
\* grammar matches, Gender whenever it does not and the gender grammar
\* does (also when the choice-list grammar matches too), Choice only when
\* neither does, and an error whose message holds the span verbatim when
\* none of the three matches.
C4_DispatchOrder ==
    Parsed =>
        /\ \A i \in 1..Len(result.fragments) :
              LET f == result.fragments[i]
              IN  f.content.variant # "Text" =>
                    Dispatch(Covered(f.pos_begin, f.pos_end), <<TRUE, f.content>>)
        /\ (~result.ok /\ IsSome(result.error.pos_end)) =>
              Dispatch(Covered(result.error.pos_begin, Unwrap(result.error.pos_end)),
                       <<FALSE, result.error.message>>)

\* a gender declaration with whitespace around '=', which the choice-list
\* grammar matches as well, parsed to a Gender
C4_Witness ==
    /\ Parsed
    /\ OneSpan(string)
    /\ IsSome(ChoiceList_parse(string))
    /\ IsSome(GenderDefinition_parse(string))
    /\ result.ok
    /\ result.fragments[1].content.variant = "Gender"

\* C5: when parse fails, no fragments are returned, every span before the
\* reported one is valid, pos_begin is the codepoint offset of the opening
\* brace of the reported span, pos_end is absent exactly when no closing
\* brace follows that brace, and otherwise is the codepoint offset right
\* after the first closing brace that follows, the span up to it matching
\* no grammar.
C5_ErrorLocation ==
    (Parsed /\ ~result.ok) =>
        LET e     == result.error
            b     == e.pos_begin
            close == IndexFrom(string, b + 1, "}")
        IN  /\ result.fragments = << >>
            /\ b < Len(string)
            /\ string[b + 1] = "{"
            /\ ParsedString_parse(SubSeq(string, 1, b)).ok
            /\ (e.pos_end = None) <=> (close = 0)
            /\ close = 0 => e.message = Unterminated
            /\ close # 0 =>
                  /\ e.pos_end = Some(close)
                  /\ ~IsSome(StringCommand_parse(Covered(b, close)))
                  /\ ~IsSome(GenderDefinition_parse(Covered(b, close)))
                  /\ ~IsSome(ChoiceList_parse(Covered(b, close)))

\* a failure on an invalid span that follows a valid span and a text with
\* a two-byte character
C5_Witness ==
    /\ Parsed
    /\ ~result.ok
    /\ IsSome(result.error.pos_end)
    /\ result.error.pos_begin >= 3
    /\ \E i \in 1..result.error.pos_begin : Utf8Len(string[i]) = 2
    /\ \E i \in 1..result.error.pos_begin : string[i] = "{"

\* the rendering of one choice as C8 words it
RenderChoice(c) ==
    IF Len(c) = 0 \/ \E i \in DOMAIN c : c[i] \in {" ", "\t", "\n", "\f", "\r"}
    THEN <<" ", Quote>> \o c \o <<Quote>>
    ELSE <<" ">> \o c

RECURSIVE RenderChoices(_, _)
RenderChoices(choices, i) ==
    IF i > Len(choices) THEN << >>
    ELSE RenderChoice(choices[i]) \o RenderChoices(choices, i + 1)

RECURSIVE Decimal(_)
\* the decimal numeral of a number held as its digits
Decimal(v) ==
    IF v = << >> THEN << >>
    ELSE Decimal(SubSeq(v, 1, Len(v) - 1)) \o <<DigitChar[v[Len(v)]]>>

\* the rendering of a choice list as C8 words it
RenderChoiceList(cl) ==
    LET index == IF cl.indexref = None THEN << >>
                 ELSE <<" ">> \o Decimal(cl.indexref[1])
        sub   == IF cl.indexref = None \/ cl.indexsubref = None THEN << >>
                 ELSE <<":">> \o Decimal(cl.indexsubref[1])
    IN  <<"{">> \o cl.name \o index \o sub \o RenderChoices(cl.choices, 1) \o <<"}">>

\* C8: ChoiceList::compile renders '{', the kind, ' <index>' if an index
\* reference is present and then ':<subindex>' if a sub-index is present
\* too, then for each choice in order a space and the choice, in double
\* quotes exactly when it is empty or holds an ASCII whitespace character,
\* then '}'.
C8_ChoiceListCompile ==
    (pc \in {"compiled", "reparsed"}
        /\ Len(result.fragments) = 1
        /\ result.fragments[1].content.variant = "Choice") =>
            output = RenderChoiceList(result.fragments[1].content)

\* a compiled choice list with an index, a sub-index, an empty choice and a
\* choice whose only whitespace is U+000B, which is not ASCII whitespace
C8_Witness ==
    /\ pc = "compiled"
    /\ Len(result.fragments) = 1
    /\ result.fragments[1].content.variant = "Choice"
    /\ result.fragments[1].content.indexref # None
    /\ result.fragments[1].content.indexsubref # None
    /\ << >> \in {result.fragments[1].content.choices[i] :
                    i \in 1..Len(result.fragments[1].content.choices)}
    /\ \E i \in 1..Len(result.fragments[1].content.choices) :
          \E j \in 1..Len(result.fragments[1].content.choices[i]) :
              result.fragments[1].content.choices[i][j] = "U+000B"

\* the interior of a span is digits, or digits, a colon and digits
DigitsOnly(span) ==
    LET interior == SubSeq(span, 2, Len(span) - 1)
        d        == Run(interior, 1, Digit)
    IN  /\ d > 0
        /\ \/ d = Len(interior)
           \/ /\ interior[d + 1] = ":"
              /\ d + 1 < Len(interior)
              /\ Run(interior, d + 2, Digit) = Len(interior) - d - 1

\* C9: an ordinal index needs its colon: a span whose interior is digits
\* without a colon, or digits, a colon and digits, matches no grammar; a
\* source that is such a span fails with the invalid-span error, and no
\* fragment of a successful parse covers such a span.
C9_DigitsNeedColon ==
    Parsed =>
        /\ (OneSpan(string) /\ DigitsOnly(string)) =>
              /\ ~result.ok
              /\ result.error =
                    ParserError(0, Some(Len(string)),
                                InvalidPrefix \o string \o <<"'">>)
        /\ \A i \in 1..Len(result.fragments) :
              LET f == result.fragments[i]
              IN  f.content.variant # "Text" =>
                      ~DigitsOnly(Covered(f.pos_begin, f.pos_end))

\* the source is '{', digits, '}' and its parse failed
C9_Witness ==
    /\ Parsed
    /\ OneSpan(string)
    /\ DigitsOnly(string)
    /\ ":" \notin {string[i] : i \in 1..Len(string)}
    /\ ~result.ok

-----------------------------------------------------------------------------
(* The choice-list syntax as the specification words it                    *)

RECURSIVE Tokens(_, _, _)
\* the tokens of a token region: each a non-empty run of separators and
\* then a run of non-whitespace, non-quote characters or a double-quoted
\* string without quotes in it.  None when t is not such a sequence.
Tokens(t, seps, acc) ==
    IF t = << >> THEN Some(acc)
    ELSE
    LET w     == Run(t, 1, seps)
        c     == At(t, w + 1)
        close == IndexFrom(t, w + 2, Quote)
        bare  == Run(t, w + 1, Alphabet \ (Whitespace \cup {Quote}))
    IN  IF w = 0 \/ c = NoChar \/ c \in Whitespace THEN None
        ELSE IF c = Quote
        THEN IF close = 0 THEN None
             ELSE Tokens(From(t, close + 1), seps,
                         Append(acc, [content |-> SubSeq(t, w + 2, close - 1),
                                      quoted  |-> TRUE,
                                      sep     |-> SubSeq(t, 1, w)]))
        ELSE Tokens(From(t, w + bare + 1), seps,
                    Append(acc, [content |-> SubSeq(t, w + 1, w + bare),
                                 quoted  |-> FALSE,
                                 sep     |-> SubSeq(t, 1, w)]))

\* what follows the kind: whitespace and digits (the index reference),
\* then maybe a colon and digits (the sub-index), then the token region
IndexPart(t) ==
    LET w  == Run(t, 1, Whitespace)
        d  == Run(t, w + 1, Digit)
        d2 == IF At(t, w + d + 1) = ":" THEN Run(t, w + d + 2, Digit) ELSE 0
    IN  IF w = 0 \/ d = 0
        THEN [sep |-> << >>, index |-> None, sub |-> None, region |-> t]
        ELSE IF d2 = 0
        THEN [sep |-> SubSeq(t, 1, w), index |-> Some(SubSeq(t, w + 1, w + d)),
              sub |-> None, region |-> From(t, w + d + 1)]
        ELSE [sep |-> SubSeq(t, 1, w), index |-> Some(SubSeq(t, w + 1, w + d)),
              sub |-> Some(SubSeq(t, w + d + 2, w + d + 1 + d2)),
              region |-> From(t, w + d + 2 + d2)]

Contents(toks) == [i \in 1..Len(toks) |-> toks[i].content]

\* the source is a span of an uppercase kind that is neither a command
\* nor a gender definition
KindSpan ==
    /\ OneSpan(string)
    /\ Len(string) >= 3
    /\ string[2] \in Upper
    /\ ~IsSome(StringCommand_parse(string))
    /\ ~IsSome(GenderDefinition_parse(string))

\* the result of the parse is one Choice fragment
OneChoice ==
    /\ result.ok
    /\ Len(result.fragments) = 1
    /\ result.fragments[1].content.variant = "Choice"

\* C7 (as claimed): in a choice-list span whose token region is one or more
\* tokens, each after a non-empty run of space, tab, CR or LF, the choices
\* of the parsed Choice are the token contents in order.  Stated for the
\* regions whose first token does not begin with a digit, which the index
\* reference would claim.
C7_TokenExtraction ==
    (Parsed /\ KindSpan /\ string[2] \in {"P", "G"}) =>
        LET part == IndexPart(SubSeq(string, 3, Len(string) - 1))
            toks == Tokens(part.region, {" ", "\t", "\r", "\n"}, << >>)
        IN  (/\ IsSome(toks)
             /\ Unwrap(toks) # << >>
             /\ At(Unwrap(toks)[1].content, 1) \notin Digit) =>
                /\ OneChoice
                /\ result.fragments[1].content.choices = Contents(Unwrap(toks))

\* C6 (as claimed): every uppercase letter is a kind: '{K tok1 ... tokn}'
\* that is neither a command nor a gender definition parses to a Choice of
\* kind K.
C6_AnyUpperKind ==
    (Parsed /\ KindSpan /\ "\n" \notin {string[i] : i \in 1..Len(string)}) =>
        LET part == IndexPart(SubSeq(string, 3, Len(string) - 1))
            toks == Tokens(part.region, {" "}, << >>)
        IN  (part.index = None /\ IsSome(toks) /\ Unwrap(toks) # << >>) =>
                /\ OneChoice
                /\ result.fragments[1].content.name = <<string[2]>>

\* C6 (amended): the only kinds are P and G.  A span of kind P or G that is
\* neither a command nor a gender definition parses to a Choice exactly
\* when the same span of kind P does, and then to that Choice but for its
\* kind; a span of any other uppercase kind that is neither a command nor
\* a gender definition is rejected as invalid.
C6_KindIsPOrG ==
    (Parsed /\ KindSpan) =>
        LET asP == ChoiceList_parse([string EXCEPT ![2] = "P"])
        IN  /\ string[2] \in {"P", "G"} =>
                  /\ OneChoice <=> IsSome(asP)
                  /\ OneChoice =>
                        result.fragments[1].content =
                            [Unwrap(asP) EXCEPT !.name = <<string[2]>>]
            /\ string[2] \notin {"P", "G"} =>
                  /\ ~result.ok
                  /\ result.error.message = InvalidPrefix \o string \o <<"'">>

\* a span of kind G with two tokens parsed to a Choice of kind G
C6_Witness ==
    /\ Parsed
    /\ KindSpan
    /\ string[2] = "G"
    /\ OneChoice
    /\ result.fragments[1].content.name = <<"G">>
    /\ Len(result.fragments[1].content.choices) = 2

\* a decimal numeral as compile writes it: ASCII digits, no leading zero,
\* and short enough to be below usize::MAX whatever its digits
CanonicalNumber(ds) ==
    /\ ds # << >>
    /\ AllIn(ds, AsciiDigit)
    /\ Len(ds) = 1 \/ ds[1] # "0"
    /\ Len(ds) < Len(USIZE_MAX)

CanonicalCommand(span) ==
    /\ IsSome(PAT_COMMAND(span))
    /\ IsSome(Unwrap(PAT_COMMAND(span))[1]) =>
            CanonicalNumber(Unwrap(Unwrap(PAT_COMMAND(span))[1]))

\* '{G=' gender '}' without whitespace
CanonicalGender(span) ==
    /\ Len(span) >= 5
    /\ SubSeq(span, 1, 3) = <<"{", "G", "=">>
    /\ AllIn(SubSeq(span, 4, Len(span) - 1), Word)

\* '{' kind, ' ' index and ':' sub-index if any, then the items, each after
\* one space, in quotes only when empty or holding ASCII whitespace, the
\* first of them not beginning with a digit; a gender definition written
\* with whitespace is not one
CanonicalChoice(span) ==
    LET part == IndexPart(SubSeq(span, 3, Len(span) - 1))
        toks == Tokens(part.region, {" "}, << >>)
    IN  /\ Len(span) >= 3
        /\ span[2] \in {"P", "G"}
        /\ ~IsSome(PAT_GENDER(span))
        /\ part.index # None =>
              /\ part.sep = <<" ">>
              /\ CanonicalNumber(Unwrap(part.index))
        /\ part.sub # None => CanonicalNumber(Unwrap(part.sub))
        /\ IsSome(toks)
        /\ Unwrap(toks) # << >>
        /\ At(Unwrap(toks)[1].content, 1) \notin Digit
        /\ \A i \in 1..Len(Unwrap(toks)) :
              LET tok == Unwrap(toks)[i]
              IN  /\ tok.sep = <<" ">>
                  /\ tok.quoted <=>
                        \/ tok.content = << >>
                        \/ \E j \in 1..Len(tok.content) :
                              tok.content[j] \in {" ", "\t", "\n", "\f", "\r"}

RECURSIVE Canonical(_)
\* s is canonically formatted: texts, and spans that end at their first
\* '}' and are canonical commands, gender definitions or choice lists
Canonical(s) ==
    LET open  == IndexFrom(s, 1, "{")
        close == IndexFrom(s, open + 1, "}")
        span  == SubSeq(s, open, close)
    IN  IF open = 0 THEN TRUE
        ELSE /\ close # 0
             /\ \/ CanonicalCommand(span)
                \/ CanonicalGender(span)
                \/ CanonicalChoice(span)
             /\ Canonical(From(s, close + 1))

\* C2 (as claimed): a canonically formatted source parses, and compiling
\* the result gives the source back.
C2_CanonicalRoundTrip ==
    (Parsed /\ Canonical(string)) =>
        /\ result.ok
        /\ pc \in {"compiled", "reparsed"} => output = string

RECURSIVE ContentOf(_)
ContentOf(fragments) ==
    IF fragments = << >> THEN << >>
    ELSE <<Head(fragments).content>> \o ContentOf(Tail(fragments))

\* C3 (as claimed): when parse succeeds on a source, parsing the compiled
\* result succeeds too and gives the same contents, fragment by fragment.
C3_RoundTripIdempotent ==
    (origin = "source" /\ pc = "reparsed") =>
        /\ reparsed.ok
        /\ ContentOf(reparsed.fragments) = ContentOf(result.fragments)

\* the numeric value of a decimal digit
NumericValue(c) == IF c = "U+0663" THEN 3 ELSE DigitValue[c]

\* the number a digit run denotes, as its digits without leading zeros
ValueOf(ds) == StripZeros([i \in 1..Len(ds) |-> NumericValue(ds[i])])

\* the source is '{' digits ':' rest '}', and '{' rest '}' is a command
IndexedCommand ==
    LET d == Run(string, 2, Digit)
    IN  /\ OneSpan(string)
        /\ d > 0
        /\ string[d + 2] = ":"
        /\ At(string, d + 3) \notin Digit
        /\ IsSome(StringCommand_parse(<<"{">> \o From(string, d + 3)))

IndexDigits == SubSeq(string, 2, 1 + Run(string, 2, Digit))

\* the command that the source without its index parses to
Unindexed == Unwrap(StringCommand_parse(<<"{">> \o From(string, 2 + Len(IndexDigits) + 1)))

\* C10 (as claimed): a command whose index digits are out of the range of
\* usize parses to the same command without index, and every digit run in
\* range gives the index of its numeric value.
C10_IndexOfDigitRun ==
    (Parsed /\ IndexedCommand) =>
        /\ result.ok
        /\ ContentOf(result.fragments) =
            <<[Unindexed EXCEPT !.index =
                IF NumLeq(ValueOf(IndexDigits), USIZE_MAX)
                THEN Some(ValueOf(IndexDigits)) ELSE None]>>

\* C10 (amended): a command whose index digits are out of the range of
\* usize, or hold a decimal digit that is not an ASCII digit, parses to
\* the same command without index; every run of ASCII digits in range
\* gives the index of its numeric value.
C10_IndexOfAsciiDigitRun ==
    (Parsed /\ IndexedCommand) =>
        /\ result.ok
        /\ ContentOf(result.fragments) =
            <<[Unindexed EXCEPT !.index =
                IF /\ AllIn(IndexDigits, AsciiDigit)
                   /\ NumLeq(ValueOf(IndexDigits), USIZE_MAX)
                THEN Some(ValueOf(IndexDigits)) ELSE None]>>

\* a command with a name, a case and the index digits of usize::MAX + 1
\* parsed to the command without index
C10_Witness ==
    /\ Parsed
    /\ IndexedCommand
    /\ Len(IndexDigits) = Len(USIZE_MAX)
    /\ ~NumLeq(ValueOf(IndexDigits), USIZE_MAX)
    /\ result.ok
    /\ result.fragments[1].content.index = None
    /\ result.fragments[1].content.name # << >>
    /\ result.fragments[1].content.case # None

\* C11 (as claimed): in every Choice fragment that parse produces, a
\* sub-index is present only if an index reference is present, however
\* long the digit run of the index.
C11_SubIndexNeedsIndex ==
    (Parsed /\ result.ok) =>
        \A i \in 1..Len(result.fragments) :
            LET c == result.fragments[i].content
            IN  (c.variant = "Choice" /\ c.indexsubref # None) =>
                    c.indexref # None

\* C12: in a successful parse every Text fragment is non-empty, is the text
\* it covers, holds no '{' and is not followed by a Text fragment; every
\* other fragment covers a span that starts at a '{' and ends at the first
\* '}' after it.
C12_TextAndSpanShape ==
    (Parsed /\ result.ok) =>
        \A i \in 1..Len(result.fragments) :
            LET f == result.fragments[i]
            IN  IF f.content.variant = "Text"
                THEN /\ f.content.text # << >>
                     /\ f.content.text = Covered(f.pos_begin, f.pos_end)
                     /\ "{" \notin {f.content.text[j] : j \in 1..Len(f.content.text)}
                     /\ i < Len(result.fragments) =>
                            result.fragments[i + 1].content.variant # "Text"
                ELSE /\ At(string, f.pos_begin + 1) = "{"
                     /\ IndexFrom(string, f.pos_begin + 1, "}") = f.pos_end

\* a parse with a Text that holds a '}' right before a span, and with a
\* span that holds a second '{' (the scanner does not count depth)
C12_Witness ==
    /\ Parsed
    /\ result.ok
    /\ \E i \in 1..(Len(result.fragments) - 1) :
          /\ result.fragments[i].content.variant = "Text"
          /\ "}" \in {result.fragments[i].content.text[j] :
                        j \in 1..Len(result.fragments[i].content.text)}
          /\ result.fragments[i + 1].content.variant # "Text"
    /\ \E i \in 1..Len(result.fragments) :
          /\ result.fragments[i].content.variant = "Command"
          /\ result.fragments[i].content.name = <<"{">>

====
